---------------------------- MODULE Spec2Model ----------------------------
(***************************************************************************)
(* Model of "Class 2/main.cpp": a line-oriented transpiler.                *)
(*   tokenizeLine / tokenizeFile : text -> flat token sequence with "\n"   *)
(*                                 markers after every line                *)
(*   splitArgs, readExprUntilEOL : cursor-driven helpers of transpile      *)
(*   transpile                   : token sequence -> generated C++ text    *)
(*                                                                         *)
(* Text (std::string) is a sequence of one-character strings, so that      *)
(* front(), back(), s[0], substr and operator<< are computed, not assumed. *)
(* Indices are 1-based: the model's cursor is the code's cursor plus one.  *)
(***************************************************************************)
EXTENDS Naturals, Sequences, FiniteSets

VARIABLES
    \* ---- tokenizeLine (one call) ----
    line,       \* const string& line
    ti,         \* size_t i of tokenizeLine (1-based)
    tokens,     \* vector<string> tokens
    tpc,        \* position in tokenizeLine: "idle", "scan", "returned"
    \* ---- transpile (one call) ----
    tok,        \* const vector<string>& tok
    i,          \* size_t i, the cursor (1-based)
    pc,         \* position in main/transpile
    body,       \* vector<string> body
    usesString, \* bool usesString
    usesFloat,  \* bool usesFloat
    out,        \* ostringstream out, as its sequence of lines
    args,       \* splitArgs: vector<string> args
    depth,      \* splitArgs: int depth
    cur,        \* splitArgs: ostringstream cur
    tkw,        \* transpile: string tkw
    id,         \* transpile: string id
    oss,        \* readExprUntilEOL: ostringstream oss
    \* ---- history (not program state) ----
    lineStart,  \* cursor value at the last dispatch
    origin,     \* for each line of body, the dispatch cursor it came from
    appended    \* tokens streamed into cur since it was last cleared

tokVars == <<line, ti, tokens, tpc>>
trVars  == <<tok, i, pc, body, usesString, usesFloat, out, args, depth, cur,
             tkw, id, oss, lineStart, origin, appended>>
vars    == <<line, ti, tokens, tpc, tok, i, pc, body, usesString, usesFloat,
             out, args, depth, cur, tkw, id, oss, lineStart, origin,
             appended>>

-----------------------------------------------------------------------------
(* Bounds of the explored inputs *)

\* longest raw line handed to tokenizeLine in SpecTok
MaxLineLen == 5
\* most lexemes plus line ends in an input file of Spec
MaxTok == 5
\* most lexemes plus line ends after a given opening or statement
MaxTail == 4

-----------------------------------------------------------------------------
(* Characters *)

Quote == "\""
Letters == {"a", "b", "c", "d", "e", "f", "g", "h", "i", "j", "k", "l", "m",
            "n", "o", "p", "q", "r", "s", "t", "u", "v", "w", "x", "y", "z"}
Digits == {"0", "1", "2", "3", "4", "5", "6", "7", "8", "9"}

Spaces == {" ", "\t", "\n", "\r"}
AlNums == Letters \cup Digits
Puncts == {"(", ")", "+", "-", "*", "/", ","}

isspace(c) == c \in Spaces
isalnum(c) == c \in AlNums
\* ch == '(' || ch == ')' || ch == '+' || ch == '-' || ch == '*' || ch == '/' || ch == ','
isPunct(c) == c \in Puncts
\* isalnum(ch) || ch == '_'
isWordChar(c) == isalnum(c) \/ c = "_"

-----------------------------------------------------------------------------
(* tokenizeLine *)

\* while (j < line.size() && line[j] != '"') j++;
RECURSIVE ScanToQuote(_, _)
ScanToQuote(s, j) ==
    IF j <= Len(s) /\ s[j] # Quote THEN ScanToQuote(s, j + 1) ELSE j

\* a plausible slip: the literal ends at the first whitespace as well
RECURSIVE ScanToQuoteOrSpace(_, _)
ScanToQuoteOrSpace(s, j) ==
    IF j <= Len(s) /\ s[j] # Quote /\ ~isspace(s[j])
    THEN ScanToQuoteOrSpace(s, j + 1) ELSE j

StringEndAtSpace(s, p) ==
    LET j == ScanToQuoteOrSpace(s, p + 1)
    IN  IF j <= Len(s) /\ s[j] = Quote THEN j + 1 ELSE j

\* the string-literal branch: one past the last character of the literal
\* that starts at p
StringEnd(s, p) ==
    LET j == ScanToQuote(s, p + 1)
    IN  IF j <= Len(s) /\ s[j] = Quote THEN j + 1 ELSE j

\* while (j < line.size() && (isalnum(line[j]) || line[j] == '_')) j++;
RECURSIVE WordEnd(_, _)
WordEnd(s, j) ==
    IF j <= Len(s) /\ isWordChar(s[j]) THEN WordEnd(s, j + 1) ELSE j

\* which branch of the loop body runs at position p
Branch(s, p) ==
    IF isspace(s[p]) THEN "space"
    ELSE IF s[p] = Quote THEN "string"
    ELSE IF isPunct(s[p]) THEN "punct"
    ELSE IF isWordChar(s[p]) THEN "word"
    ELSE "other"

\* the position after one iteration of the loop body at p
NextPos(s, p) ==
    LET b == Branch(s, p)
    IN  IF b = "string" THEN StringEnd(s, p)
        ELSE IF b = "word" THEN WordEnd(s, p + 1)
        ELSE p + 1

\* the tokens vector after one iteration of the loop body at p
Pushed(s, p, ts) ==
    IF isspace(s[p]) THEN ts
    ELSE Append(ts, SubSeq(s, p, NextPos(s, p) - 1))

RECURSIVE tokenizeFrom(_, _, _)
tokenizeFrom(s, p, ts) ==
    IF p > Len(s) THEN ts
    ELSE tokenizeFrom(s, NextPos(s, p), Pushed(s, p, ts))

tokenizeLine(s) == tokenizeFrom(s, 1, <<>>)

NL == <<"\n">>

\* tokenizeFile on an opened file, given as the lines getline returns
RECURSIVE tokenizeFile(_)
tokenizeFile(file) ==
    IF file = <<>> THEN <<>>
    ELSE tokenizeLine(Head(file)) \o <<NL>> \o tokenizeFile(Tail(file))

-----------------------------------------------------------------------------
(* Helpers *)

K_dekhao  == <<"d", "e", "k", "h", "a", "o">>
K_integer == <<"i", "n", "t", "e", "g", "e", "r">>
K_float   == <<"f", "l", "o", "a", "t">>
K_string  == <<"s", "t", "r", "i", "n", "g">>
K_te      == <<"t", "e">>
LPAREN  == <<"(">>
RPAREN  == <<")">>
COMMA   == <<",">>

isNewlineToken(t) == t = NL
isTypeKeyword(t) == t = K_integer \/ t = K_float \/ t = K_string

S_int       == <<"i", "n", "t">>
S_float     == <<"f", "l", "o", "a", "t">>
S_stdstring == <<"s", "t", "d", ":", ":", "s", "t", "r", "i", "n", "g">>

cppType(t) ==
    IF t = K_integer THEN S_int
    ELSE IF t = K_float THEN S_float
    ELSE IF t = K_string THEN S_stdstring
    ELSE t

\* the lambda wordLike of readExprUntilEOL
wordLike(s) ==
    IF Len(s) >= 2 /\ s[1] = Quote /\ s[Len(s)] = Quote THEN TRUE
    ELSE s # <<>> /\ isWordChar(s[1])

\* curWord / nxtWord of splitArgs
curWord(t) == t # <<>> /\ (isWordChar(t[1]) \/ t[1] = Quote)

\* the two erase calls of flushArg
RECURSIVE trimLeft(_)
trimLeft(s) ==
    IF s # <<>> /\ isspace(Head(s)) THEN trimLeft(Tail(s)) ELSE s

RECURSIVE trimRight(_)
trimRight(s) ==
    IF s # <<>> /\ isspace(s[Len(s)]) THEN trimRight(SubSeq(s, 1, Len(s) - 1))
    ELSE s

trim(s) == trimRight(trimLeft(s))

\* flushArg: the args vector after the flush (cur is cleared by the caller)
flushArg(as, c) == IF trim(c) # <<>> THEN Append(as, trim(c)) ELSE as

\* while (i < tok.size() && isNewlineToken(tok[i])) ++i;
RECURSIVE SkipNewlinesFrom(_, _)
SkipNewlinesFrom(t, j) ==
    IF j <= Len(t) /\ isNewlineToken(t[j]) THEN SkipNewlinesFrom(t, j + 1) ELSE j

\* a plausible slip: the skip-to-end-of-line loop never advances
SkipToEOLStuck(t, j) == j

\* while (i < tok.size() && !isNewlineToken(tok[i])) ++i;
RECURSIVE SkipToEOL(_, _)
SkipToEOL(t, j) ==
    IF j <= Len(t) /\ ~isNewlineToken(t[j]) THEN SkipToEOL(t, j + 1) ELSE j

-----------------------------------------------------------------------------
(* Generated text *)

S_include_iostream == <<"#", "i", "n", "c", "l", "u", "d", "e", " ", "<", "i", "o", "s", "t", "r", "e", "a", "m", ">">>
S_include_string == <<"#", "i", "n", "c", "l", "u", "d", "e", " ", "<", "s", "t", "r", "i", "n", "g", ">">>
S_using  == <<"u", "s", "i", "n", "g", " ", "n", "a", "m", "e", "s", "p", "a", "c", "e", " ", "s", "t", "d", ";">>
S_main   == <<"i", "n", "t", " ", "m", "a", "i", "n", "(", ")", " ", "{">>
S_indent == <<" ", " ", " ", " ">>
S_return == <<" ", " ", " ", " ", "r", "e", "t", "u", "r", "n", " ", "0", ";">>
S_close  == <<"}">>
S_cout   == <<"s", "t", "d", ":", ":", "c", "o", "u", "t">>
S_shl    == <<" ", "<", "<", " ">>
S_endl   == <<" ", "<", "<", " ", "s", "t", "d", ":", ":", "e", "n", "d", "l", ";">>
S_eq     == <<" ", "=", " ">>

\* for (auto &a : args) stmt << " << " << a;
RECURSIVE CoutArgs(_)
CoutArgs(as) ==
    IF as = <<>> THEN <<>> ELSE S_shl \o Head(as) \o CoutArgs(Tail(as))

\* the print statement's code line
PrintStmt(as) == S_cout \o CoutArgs(as) \o S_endl

\* the declaration's code line
DeclStmt(t, name, expr) == cppType(t) \o <<" ">> \o name \o S_eq \o expr \o <<";">>

\* a plausible slip: the header is tied to either feature flag
ProgramEitherFlag(b, us, uf) ==
    <<S_include_iostream>>
      \o (IF us \/ uf THEN <<S_include_string>> ELSE <<>>)
      \o <<S_using, <<>>, S_main>>
      \o [k \in 1..Len(b) |-> S_indent \o b[k]]
      \o <<S_return, S_close>>

\* the final assembly, as the sequence of chunks each ended by "\n"
Program(b, us, uf) ==
    <<S_include_iostream>>
      \o (IF us THEN <<S_include_string>> ELSE <<>>)
      \o <<S_using, <<>>, S_main>>
      \o [k \in 1..Len(b) |-> S_indent \o b[k]]
      \o <<S_return, S_close>>

-----------------------------------------------------------------------------
(* Inputs *)

\* the characters of the raw lines of SpecTok
LineChars == {"a", "_", " ", Quote, ",", "="}

RawLines(n) == [1..n -> LineChars]

\* the lexemes the input files of Spec are written with
Lexemes == {K_dekhao, K_integer, K_float, K_string, K_te, <<"a">>,
            LPAREN, RPAREN, COMMA, <<Quote, "s">>}

Ident == <<"a">>

\* a file's lexemes with NL after every line, n of them in all; no file is
\* empty, main returns before transpile when there is no token
Scripts(n) == {Append(s, NL) : s \in [1..(n - 1) -> Lexemes \cup {NL}]}

\* the opening of a statement, to be continued by a script
Openings == {<<K_dekhao, LPAREN>>,
             <<K_integer, Ident, K_te>>,
             <<K_float, Ident, K_te>>,
             <<K_string, Ident, K_te>>}

\* a whole statement on a line of its own, to be followed by a script
Statements == {<<K_dekhao, LPAREN, Ident, RPAREN, NL>>,
               <<K_integer, Ident, K_te, Ident, NL>>,
               <<K_float, Ident, K_te, Ident, NL>>,
               <<K_string, Ident, K_te, Ident, NL>>}

\* the text of one line: its lexemes separated by single blanks
RECURSIVE LineText(_)
LineText(ls) ==
    IF ls = <<>> THEN <<>>
    ELSE IF Len(ls) = 1 THEN Head(ls)
    ELSE Head(ls) \o <<" ">> \o LineText(Tail(ls))

\* the lines getline returns for a script
RECURSIVE FileOf(_)
FileOf(s) ==
    IF s = <<>> THEN <<>>
    ELSE LET e == CHOOSE k \in 1..Len(s) : s[k] = NL /\ \A j \in 1..(k - 1) : s[j] # NL
         IN  <<LineText(SubSeq(s, 1, e - 1))>> \o FileOf(SubSeq(s, e + 1, Len(s)))

-----------------------------------------------------------------------------
(* Initial states *)

TokIdle == line = <<>> /\ ti = 1 /\ tokens = <<>> /\ tpc = "idle"

Locals ==
    /\ i = 1 /\ body = <<>> /\ usesString = FALSE /\ usesFloat = FALSE
    /\ out = <<>> /\ args = <<>> /\ depth = 0 /\ cur = <<>>
    /\ tkw = <<>> /\ id = <<>> /\ oss = <<>>
    /\ lineStart = 0 /\ origin = <<>> /\ appended = <<>>

\* main: tokens = tokenizeFile(inputFile) is not empty, transpile is entered
Init ==
    /\ TokIdle
    /\ \/ \E n \in 1..MaxTok : \E s \in Scripts(n) :
              tok = tokenizeFile(FileOf(s))
       \/ \E h \in Openings \cup Statements :
              \E n \in 1..MaxTail : \E s \in Scripts(n) :
                 tok = tokenizeFile(FileOf(h \o s))
    /\ pc = "loop"
    /\ Locals

\* a call of tokenizeLine on a raw line
InitTok ==
    /\ \E n \in 0..MaxLineLen : line \in RawLines(n)
    /\ ti = 1 /\ tokens = <<>> /\ tpc = "scan"
    /\ tok = <<>> /\ pc = "idle"
    /\ Locals

-----------------------------------------------------------------------------
(* tokenizeLine, one loop iteration per action *)

\* whitespace is skipped
TokSkipSpace ==
    /\ tpc = "scan" /\ ti <= Len(line) /\ Branch(line, ti) = "space"
    /\ ti' = NextPos(line, ti)
    /\ tokens' = tokens
    /\ UNCHANGED <<line, tpc>>
    /\ UNCHANGED trVars

\* a double quote: the literal through its closing quote or the end of the line
TokString ==
    /\ tpc = "scan" /\ ti <= Len(line) /\ Branch(line, ti) = "string"
    /\ ti' = NextPos(line, ti)
    /\ tokens' = Pushed(line, ti, tokens)
    /\ UNCHANGED <<line, tpc>>
    /\ UNCHANGED trVars

\* one of ( ) + - * / , is a token of its own
TokPunct ==
    /\ tpc = "scan" /\ ti <= Len(line) /\ Branch(line, ti) = "punct"
    /\ ti' = NextPos(line, ti)
    /\ tokens' = Pushed(line, ti, tokens)
    /\ UNCHANGED <<line, tpc>>
    /\ UNCHANGED trVars

\* a run of alphanumerics and underscores
TokWord ==
    /\ tpc = "scan" /\ ti <= Len(line) /\ Branch(line, ti) = "word"
    /\ ti' = NextPos(line, ti)
    /\ tokens' = Pushed(line, ti, tokens)
    /\ UNCHANGED <<line, tpc>>
    /\ UNCHANGED trVars

\* fallback: any other character is a token of its own
TokOther ==
    /\ tpc = "scan" /\ ti <= Len(line) /\ Branch(line, ti) = "other"
    /\ ti' = NextPos(line, ti)
    /\ tokens' = Pushed(line, ti, tokens)
    /\ UNCHANGED <<line, tpc>>
    /\ UNCHANGED trVars

TokReturn ==
    /\ tpc = "scan" /\ ti > Len(line)
    /\ tpc' = "returned"
    /\ UNCHANGED <<line, ti, tokens>>
    /\ UNCHANGED trVars

NextTok ==
    \/ TokSkipSpace
    \/ TokString
    \/ TokPunct
    \/ TokWord
    \/ TokOther
    \/ TokReturn

SpecTok == InitTok /\ [][NextTok]_vars

-----------------------------------------------------------------------------
(* transpile *)

\* top of the outer loop: the loop test and the skip of leading newlines
\* (the skip of trailing newlines that ends an iteration is the same loop,
\* run immediately before this one)
SkipNewlines ==
    /\ pc = "loop"
    /\ i' = SkipNewlinesFrom(tok, i)
    /\ pc' = IF i' > Len(tok) THEN "assemble" ELSE "dispatch"
    /\ UNCHANGED <<tok, body, usesString, usesFloat, out, args, depth, cur,
                   tkw, id, oss, lineStart, origin, appended>>
    /\ UNCHANGED tokVars

\* dekhao followed by "(": both consumed, splitArgs entered
DispatchPrint ==
    /\ pc = "dispatch"
    /\ tok[i] = K_dekhao
    /\ i + 1 <= Len(tok) /\ tok[i + 1] = LPAREN
    /\ i' = i + 2
    /\ args' = <<>> /\ depth' = 0 /\ cur' = <<>> /\ appended' = <<>>
    /\ lineStart' = i
    /\ pc' = "split"
    /\ UNCHANGED <<tok, body, usesString, usesFloat, out, tkw, id, oss, origin>>
    /\ UNCHANGED tokVars

\* dekhao not followed by "(": malformed, skip to the end of the line
DispatchMalformed ==
    /\ pc = "dispatch"
    /\ tok[i] = K_dekhao
    /\ ~(i + 1 <= Len(tok) /\ tok[i + 1] = LPAREN)
    /\ i' = SkipToEOL(tok, i + 1)
    /\ lineStart' = i
    /\ pc' = "loop"
    /\ UNCHANGED <<tok, body, usesString, usesFloat, out, args, depth, cur,
                   tkw, id, oss, origin, appended>>
    /\ UNCHANGED tokVars

\* else if (i+3 < tok.size() && isTypeKeyword(tok[i])): type keyword, id and
\* an optional te consumed, readExprUntilEOL entered
DispatchDecl ==
    /\ pc = "dispatch"
    /\ tok[i] # K_dekhao
    /\ i + 3 <= Len(tok) /\ isTypeKeyword(tok[i])
    /\ tkw' = tok[i]
    /\ id' = IF i + 1 <= Len(tok) THEN tok[i + 1] ELSE <<>>
    /\ LET j == IF i + 1 <= Len(tok) THEN i + 2 ELSE i + 1
           maybeTe == IF j <= Len(tok) THEN tok[j] ELSE <<>>
       IN  i' = IF maybeTe = K_te THEN j + 1 ELSE j
    /\ oss' = <<>>
    /\ lineStart' = i
    /\ pc' = "expr"
    /\ UNCHANGED <<tok, body, usesString, usesFloat, out, args, depth, cur,
                   origin, appended>>
    /\ UNCHANGED tokVars

\* a plausible slip: the unrecognized line leaves a blank line in the body
DispatchUnrecognizedBlank ==
    /\ pc = "dispatch"
    /\ tok[i] # K_dekhao
    /\ ~(i + 3 <= Len(tok) /\ isTypeKeyword(tok[i]))
    /\ i' = SkipToEOL(tok, i)
    /\ body' = Append(body, <<>>)
    /\ origin' = Append(origin, i)
    /\ lineStart' = i
    /\ pc' = "loop"
    /\ UNCHANGED <<tok, usesString, usesFloat, out, args, depth, cur,
                   tkw, id, oss, appended>>
    /\ UNCHANGED tokVars

\* else: unrecognized line, skip to the end of the line
DispatchUnrecognized ==
    /\ pc = "dispatch"
    /\ tok[i] # K_dekhao
    /\ ~(i + 3 <= Len(tok) /\ isTypeKeyword(tok[i]))
    /\ i' = SkipToEOL(tok, i)
    /\ lineStart' = i
    /\ pc' = "loop"
    /\ UNCHANGED <<tok, body, usesString, usesFloat, out, args, depth, cur,
                   tkw, id, oss, origin, appended>>
    /\ UNCHANGED tokVars

-----------------------------------------------------------------------------
(* splitArgs, one loop iteration per action *)

SplitFrame == UNCHANGED <<tok, body, usesString, usesFloat, out, tkw, id, oss,
                          lineStart, origin>>

\* t == "(": depth++, streamed into cur
SplitOpen ==
    /\ pc = "split" /\ i <= Len(tok)
    /\ tok[i] = LPAREN
    /\ depth' = depth + 1
    /\ cur' = cur \o tok[i]
    /\ appended' = Append(appended, tok[i])
    /\ i' = i + 1
    /\ UNCHANGED <<pc, args>>
    /\ SplitFrame /\ UNCHANGED tokVars

\* t == ")" at depth 0: flush, consume ")" and leave the loop
SplitClose ==
    /\ pc = "split" /\ i <= Len(tok)
    /\ tok[i] = RPAREN /\ depth = 0
    /\ args' = flushArg(args, cur)
    /\ cur' = <<>> /\ appended' = <<>>
    /\ i' = i + 1
    /\ pc' = "printEmit"
    /\ UNCHANGED depth
    /\ SplitFrame /\ UNCHANGED tokVars

\* t == ")" inside a nested pair: depth--, streamed into cur
SplitCloseNested ==
    /\ pc = "split" /\ i <= Len(tok)
    /\ tok[i] = RPAREN /\ depth # 0
    /\ depth' = depth - 1
    /\ cur' = cur \o tok[i]
    /\ appended' = Append(appended, tok[i])
    /\ i' = i + 1
    /\ UNCHANGED <<pc, args>>
    /\ SplitFrame /\ UNCHANGED tokVars

\* t == "," at depth 0: flush
SplitComma ==
    /\ pc = "split" /\ i <= Len(tok)
    /\ tok[i] = COMMA /\ depth = 0
    /\ args' = flushArg(args, cur)
    /\ cur' = <<>> /\ appended' = <<>>
    /\ i' = i + 1
    /\ UNCHANGED <<pc, depth>>
    /\ SplitFrame /\ UNCHANGED tokVars

\* any other token but the newline marker: streamed into cur, then a blank
\* when it and tok[i+1] are both word-like
SplitAppend ==
    /\ pc = "split" /\ i <= Len(tok)
    /\ tok[i] # LPAREN /\ tok[i] # RPAREN
    /\ ~(tok[i] = COMMA /\ depth = 0)
    /\ ~isNewlineToken(tok[i])
    /\ cur' = cur \o tok[i]
                  \o (IF i + 1 <= Len(tok) /\ curWord(tok[i]) /\ curWord(tok[i + 1])
                      THEN <<" ">> ELSE <<>>)
    /\ appended' = Append(appended, tok[i])
    /\ i' = i + 1
    /\ UNCHANGED <<pc, args, depth>>
    /\ SplitFrame /\ UNCHANGED tokVars

\* the newline marker is passed over
SplitNewline ==
    /\ pc = "split" /\ i <= Len(tok)
    /\ isNewlineToken(tok[i])
    /\ i' = i + 1
    /\ UNCHANGED <<pc, args, depth, cur, appended>>
    /\ SplitFrame /\ UNCHANGED tokVars

\* i == tok.size(): the loop ends and args is returned as it is
SplitEnd ==
    /\ pc = "split" /\ i > Len(tok)
    /\ pc' = "printEmit"
    /\ UNCHANGED <<i, args, depth, cur, appended>>
    /\ SplitFrame /\ UNCHANGED tokVars

\* back in transpile: skip to the end of the line, push the cout statement
PrintEmit ==
    /\ pc = "printEmit"
    /\ i' = SkipToEOL(tok, i)
    /\ body' = Append(body, PrintStmt(args))
    /\ origin' = Append(origin, lineStart)
    /\ pc' = "loop"
    /\ UNCHANGED <<tok, usesString, usesFloat, out, args, depth, cur, tkw, id,
                   oss, lineStart, appended>>
    /\ UNCHANGED tokVars

-----------------------------------------------------------------------------
(* readExprUntilEOL, one loop iteration per action *)

ExprFrame == UNCHANGED <<tok, pc, body, usesString, usesFloat, out, args,
                         depth, cur, tkw, id, lineStart, origin, appended>>

\* if (tok[i] == "te") { ++i; continue; }
ExprSkipTe ==
    /\ pc = "expr" /\ i <= Len(tok) /\ ~isNewlineToken(tok[i])
    /\ tok[i] = K_te
    /\ i' = i + 1
    /\ UNCHANGED oss
    /\ ExprFrame /\ UNCHANGED tokVars

\* oss << tok[i], then a blank when a next token exists on the line and both
\* are wordLike
ExprAppend ==
    /\ pc = "expr" /\ i <= Len(tok) /\ ~isNewlineToken(tok[i])
    /\ tok[i] # K_te
    /\ oss' = oss \o tok[i]
                  \o (IF /\ i + 1 <= Len(tok) /\ ~isNewlineToken(tok[i + 1])
                         /\ wordLike(tok[i]) /\ wordLike(tok[i + 1])
                      THEN <<" ">> ELSE <<>>)
    /\ i' = i + 1
    /\ ExprFrame /\ UNCHANGED tokVars

\* readExprUntilEOL returns; transpile sets the flags and pushes the
\* declaration
DeclEmit ==
    /\ pc = "expr" /\ ~(i <= Len(tok) /\ ~isNewlineToken(tok[i]))
    /\ usesString' = (usesString \/ tkw = K_string)
    /\ usesFloat' = (usesFloat \/ tkw = K_float)
    /\ body' = Append(body, DeclStmt(tkw, id, oss))
    /\ origin' = Append(origin, lineStart)
    /\ pc' = "loop"
    /\ UNCHANGED <<tok, i, out, args, depth, cur, tkw, id, oss, lineStart,
                   appended>>
    /\ UNCHANGED tokVars

\* the headers, main and the body lines are written to out
Assemble ==
    /\ pc = "assemble"
    /\ out' = Program(body, usesString, usesFloat)
    /\ pc' = "done"
    /\ UNCHANGED <<tok, i, body, usesString, usesFloat, args, depth, cur, tkw,
                   id, oss, lineStart, origin, appended>>
    /\ UNCHANGED tokVars

Next ==
    \/ SkipNewlines
    \/ DispatchPrint
    \/ DispatchMalformed
    \/ DispatchDecl
    \/ DispatchUnrecognized
    \/ SplitOpen
    \/ SplitClose
    \/ SplitCloseNested
    \/ SplitComma
    \/ SplitAppend
    \/ SplitNewline
    \/ SplitEnd
    \/ PrintEmit
    \/ ExprSkipTe
    \/ ExprAppend
    \/ DeclEmit
    \/ Assemble

Spec == Init /\ [][Next]_vars

-----------------------------------------------------------------------------
(* Vocabulary of the properties *)

\* word-like: the first character is alphanumeric, an underscore or a quote
WordLikeToken(t) == t # <<>> /\ (isalnum(t[1]) \/ t[1] = "_" \/ t[1] = Quote)

\* tokens re-serialized: one blank between two adjacent word-like tokens,
\* nothing between two adjacent tokens otherwise
RECURSIVE JoinSpaced(_)
JoinSpaced(ts) ==
    IF ts = <<>> THEN <<>>
    ELSE IF Len(ts) = 1 THEN ts[1]
    ELSE ts[1]
           \o (IF WordLikeToken(ts[1]) /\ WordLikeToken(ts[2]) THEN <<" ">> ELSE <<>>)
           \o JoinSpaced(Tail(ts))

\* s is the first token of a line
IsLineStart(t, s) ==
    /\ s \in 1..Len(t) /\ t[s] # NL
    /\ (s = 1 \/ t[s - 1] = NL)

\* the index of the line-boundary marker that ends the line holding index s
LineEnd(t, s) == CHOOSE e \in s..Len(t) : t[e] = NL /\ \A k \in s..(e - 1) : t[k] # NL

\* the tokens that follow index s on its line
RestOfLine(t, s) == SubSeq(t, s + 1, LineEnd(t, s) - 1)

\* the index of the closing parenthesis that matches the opening one consumed
\* just before index k (d nested pairs being open), 0 when there is none
RECURSIVE MatchingClose(_, _, _)
MatchingClose(t, k, d) ==
    IF k > Len(t) THEN 0
    ELSE IF t[k] = LPAREN THEN MatchingClose(t, k + 1, d + 1)
    ELSE IF t[k] = RPAREN THEN (IF d = 0 THEN k ELSE MatchingClose(t, k + 1, d - 1))
    ELSE MatchingClose(t, k + 1, d)

\* the top-level comma-separated arguments of an argument list: ts are the
\* tokens after the opening parenthesis, the list ends at its matching closing
\* parenthesis or with ts; an argument with no token is no argument
RECURSIVE TopLevelArgs(_, _, _, _)
TopLevelArgs(ts, d, arg, done) ==
    LET flushed == IF arg = <<>> THEN done ELSE Append(done, JoinSpaced(arg))
    IN  IF ts = <<>> THEN flushed
        ELSE IF Head(ts) = LPAREN
             THEN TopLevelArgs(Tail(ts), d + 1, Append(arg, Head(ts)), done)
        ELSE IF Head(ts) = RPAREN
             THEN (IF d = 0 THEN flushed
                   ELSE TopLevelArgs(Tail(ts), d - 1, Append(arg, Head(ts)), done))
        ELSE IF Head(ts) = COMMA /\ d = 0
             THEN TopLevelArgs(Tail(ts), d, <<>>, flushed)
        ELSE TopLevelArgs(Tail(ts), d, Append(arg, Head(ts)), done)

\* a print statement starts at s: dekhao followed by "("
IsPrintLine(t, s) ==
    /\ IsLineStart(t, s) /\ t[s] = K_dekhao
    /\ s + 1 <= Len(t) /\ t[s + 1] = LPAREN

\* a declaration <type> <id> te <expr> starts at s
IsDeclLine(t, s) ==
    /\ IsLineStart(t, s) /\ isTypeKeyword(t[s])
    /\ Len(RestOfLine(t, s)) >= 2 /\ t[s + 2] = K_te

\* a type keyword at s with fewer than three more tokens on its line
IsShortTypeLine(t, s) ==
    /\ IsLineStart(t, s) /\ isTypeKeyword(t[s])
    /\ Len(RestOfLine(t, s)) < 3

\* the first token of the line at s is neither dekhao nor a type keyword
IsOtherLine(t, s) ==
    /\ IsLineStart(t, s) /\ t[s] # K_dekhao /\ ~isTypeKeyword(t[s])

\* the body lines that came from the line starting at s
LinesFrom(s) == {k \in 1..Len(origin) : origin[k] = s}

-----------------------------------------------------------------------------
(* Properties *)

QuotePositions(s) == {k \in 1..Len(s) : s[k] = Quote}
LastQuote(s) == CHOOSE k \in QuotePositions(s) : \A j \in QuotePositions(s) : j <= k

\* Quotes are consumed in pairs by the string-literal branch alone, so the
\* last quote of a line opens a literal that is never closed exactly when the
\* line holds an odd number of quotes.
HasOpenQuote(s) == Cardinality(QuotePositions(s)) % 2 = 1

\* C5: when a double quote is opened and no further double quote occurs on
\* the line, the last token tokenizeLine returns is the text from that quote
\* through the end of the line, whitespace included and no closing quote
\* added, and no token follows it.
C5_UnclosedLiteralRunsToEndOfLine ==
    (tpc = "returned" /\ HasOpenQuote(line)) =>
        /\ tokens # <<>>
        /\ tokens[Len(tokens)] = SubSeq(line, LastQuote(line), Len(line))

C5_Witness ==
    /\ tpc = "returned" /\ HasOpenQuote(line)
    /\ Len(tokens) >= 2
    /\ \E k \in (LastQuote(line) + 1)..(Len(line) - 1) : isspace(line[k])
    /\ tokens[Len(tokens)] = SubSeq(line, LastQuote(line), Len(line))

\* C1: every print statement (a line starting with dekhao followed by "(")
\* with N top-level arguments yields exactly one code line, which is
\* std::cout << a1 << ... << aN << std::endl; with the arguments in order.
C1_PrintLineWritesEveryArgument ==
    /\ \A k \in 1..Len(body) :
          IsPrintLine(tok, origin[k]) =>
             body[k] = PrintStmt(TopLevelArgs(RestOfLine(tok, origin[k] + 1), 0, <<>>, <<>>))
    /\ pc = "done" =>
          \A s \in 1..Len(tok) : IsPrintLine(tok, s) => Cardinality(LinesFrom(s)) = 1

\* C2: every declaration line <type> <id> te <expr> yields exactly one code
\* line <mapped type> <id> = <E>; where <E> is the tokens of <expr> in order,
\* one blank between two adjacent word-like tokens and nothing otherwise.
\* Stated for the lines whose <expr> holds no further te, a token that
\* readExprUntilEOL leaves out on purpose.
IsPlainDeclLine(t, s) ==
    /\ IsDeclLine(t, s)
    /\ \A k \in (s + 3)..(LineEnd(t, s) - 1) : t[k] # K_te

C2_DeclLineKeepsExpression ==
    /\ \A k \in 1..Len(body) :
          IsPlainDeclLine(tok, origin[k]) =>
             body[k] = DeclStmt(tok[origin[k]], tok[origin[k] + 1],
                                JoinSpaced(RestOfLine(tok, origin[k] + 2)))
    /\ pc = "done" =>
          \A s \in 1..Len(tok) :
             IsPlainDeclLine(tok, s) => Cardinality(LinesFrom(s)) = 1

\* C3: a line whose first token is neither dekhao nor a type keyword adds no
\* line to the body and leaves both flags as they are; the body lines come
\* from recognized lines only, in the order of their source lines, one per
\* source line at most, and none of them is blank.
C3_OtherLineStep ==
    (pc = "dispatch" /\ IsOtherLine(tok, i)) =>
        /\ body' = body
        /\ usesString' = usesString /\ usesFloat' = usesFloat
        /\ i' = LineEnd(tok, i)

C3_BodyFromRecognizedLinesInOrder ==
    /\ Len(origin) = Len(body)
    /\ \A k \in 1..Len(body) :
          /\ ~IsOtherLine(tok, origin[k])
          /\ IsLineStart(tok, origin[k])
          /\ body[k] # <<>>
    /\ \A k, l \in 1..Len(body) : k < l => origin[k] < origin[l]

C3_UnrecognizedLineEmitsNothing ==
    [][C3_OtherLineStep]_vars /\ []C3_BodyFromRecognizedLinesInOrder

C3_Witness ==
    /\ pc = "loop" /\ lineStart > 0 /\ IsOtherLine(tok, lineStart)
    /\ i = LineEnd(tok, lineStart)
    /\ Len(body) = 1 /\ origin[1] < lineStart

\* C4: usesString and usesFloat only ever change from false to true; the
\* generated program holds the #include <string> line exactly when usesString
\* is true at the end of the scan, which is exactly when a declaration with
\* type keyword string was emitted.
C4_FlagsStep ==
    /\ usesString => usesString'
    /\ usesFloat => usesFloat'

C4_HeaderIffStringDecl ==
    /\ usesString <=> \E k \in 1..Len(body) : tok[origin[k]] = K_string
    /\ pc = "done" => (usesString <=> \E k \in 1..Len(out) : out[k] = S_include_string)
    /\ pc # "done" => out = <<>>

C4_StringHeaderFollowsMonotoneFlag ==
    [][C4_FlagsStep]_vars /\ []C4_HeaderIffStringDecl

C4_Witness ==
    /\ pc = "done" /\ usesString /\ usesFloat
    /\ Len(body) = 2
    /\ \E k \in 1..Len(out) : out[k] = S_include_string

\* C6: a type keyword at the dispatch cursor with fewer than three more tokens
\* on its line is an unrecognized line: no code line, no flag, and the cursor
\* moves to the next line-boundary marker only.
C6_ShortTypeLineStep ==
    (pc = "dispatch" /\ IsShortTypeLine(tok, i)) =>
        /\ pc' = "loop"
        /\ body' = body
        /\ usesString' = usesString /\ usesFloat' = usesFloat
        /\ i' = LineEnd(tok, i)

C6_ShortTypeLineIsUnrecognized ==
    [][C6_ShortTypeLineStep]_vars
      /\ [](\A k \in 1..Len(origin) : ~IsShortTypeLine(tok, origin[k]))

\* C7: when splitArgs returns, the cursor is just after the closing
\* parenthesis that matches the consumed opening one, and the returned
\* arguments hold every non-empty argument text collected, the last included.
C7_SplitReturnStep ==
    (pc = "split" /\ pc' = "printEmit") =>
        /\ i' - 1 = MatchingClose(tok, lineStart + 2, 0)
        /\ args' = (IF trim(cur) # <<>> THEN Append(args, trim(cur)) ELSE args)

C7_SplitArgsEndsAfterMatchingParen == [][C7_SplitReturnStep]_vars

\* C8: two tokens appended one after the other to the same argument buffer
\* (line-boundary markers are not appended) are separated by exactly one blank
\* when both are word-like and by nothing otherwise; a blank already written
\* for the token to come is allowed for.
C8_ArgumentBufferSpacing ==
    pc = "split" =>
        \/ cur = JoinSpaced(appended)
        \/ cur = JoinSpaced(appended) \o <<" ">>

\* C9: between two adjacent tokens that both readExprUntilEOL and splitArgs
\* emit, readExprUntilEOL writes a blank exactly when splitArgs would.
C9_ReadExprStep ==
    (/\ pc = "expr" /\ i + 1 <= Len(tok)
     /\ tok[i] \notin {NL, K_te} /\ tok[i + 1] \notin {NL, K_te}) =>
        oss' = oss \o tok[i]
                   \o (IF curWord(tok[i]) /\ curWord(tok[i + 1]) THEN <<" ">> ELSE <<>>)

C9_SameSpacingDecision == [][C9_ReadExprStep]_vars

\* the cursor's distance to the end, then the position within an iteration
Rank(p) ==
    CASE p = "split" -> 5
      [] p = "printEmit" -> 4
      [] p = "expr" -> 4
      [] p = "loop" -> 3
      [] p = "dispatch" -> 2
      [] p = "assemble" -> 1
      [] OTHER -> 0

Measure == 6 * (Len(tok) + 1 - i) + Rank(pc)

\* C10: transpile terminates; the cursor never decreases and never exceeds
\* the length of the token sequence; every iteration of the outer loop
\* advances it by one token at least; every dispatch happens on the first
\* token of a line.
C10_CursorStep ==
    /\ i' >= i
    /\ pc = "dispatch" => i' > i
    /\ Measure' < Measure

C10_CursorInv ==
    /\ i <= Len(tok) + 1
    /\ pc = "dispatch" => IsLineStart(tok, i)
    /\ (pc = "loop" /\ lineStart > 0) => i > lineStart
    /\ pc # "done" => ENABLED Next

C10_TranspileTerminates == [][C10_CursorStep]_vars /\ []C10_CursorInv

C10_Witness ==
    /\ pc = "done" /\ i = Len(tok) + 1
    /\ Len(body) = 2
    /\ \E s \in 1..Len(tok) : IsOtherLine(tok, s)

=============================================================================
